---- MODULE Spec2Model ----
(***************************************************************************)
(* Surface-pair visualisation model of surface-plots.                      *)
(*                                                                         *)
(* src/src/plotly_helpers.py : palette table, make_colorscale_distinct,    *)
(*                             create_surface, create_layout,              *)
(*                             add_traces_to_figure                        *)
(* src/src/app.py            : startup construction of the figure store,   *)
(*                             callbacks select_graph, add_trace and       *)
(*                             update_graph                                *)
(*                                                                         *)
(* Python strings are TLA+ strings (Len, SubSeq and \o act on them), so    *)
(* "WPI" in name and title.split("+") are computed, not assumed.           *)
(* Non-integer numbers are exact fractions <<numerator, denominator>>.     *)
(* A call's outcome is a record: [raised |-> "none", value |-> v] when it  *)
(* returns v, [raised |-> "<exception type>"] when it raises.              *)
(***************************************************************************)
EXTENDS Integers, Sequences, FiniteSets, TLC

VARIABLES
    figure_store,    \* dcc.Store "figure-store".data : selector key -> figure dict
    plot_figure,     \* dcc.Graph "plot-window".figure : the displayed figure
    graph_selector,  \* dcc.Dropdown "graph-selector".value
    n_clicks,        \* html.Button "add-trace-button".n_clicks (None until clicked)
    pending,         \* callbacks the current event has still to run
    triggered,       \* inputs of update_graph changed by the current event, in order
    call,            \* the last invocation of select_graph / add_trace: arguments and outcome
    adds,            \* history: per key, add-actions that stored a figure under it
    args,            \* arguments of a call of a pure builder
    result           \* outcome of that call

appvars == <<figure_store, plot_figure, graph_selector, n_clicks, pending, triggered, call, adds>>
vars == <<figure_store, plot_figure, graph_selector, n_clicks, pending, triggered, call, adds,
          args, result>>

----------------------------------------------------------------------------
(* Values *)

None == [some |-> FALSE]
Some(v) == [some |-> TRUE, val |-> v]

Rat(n, d) == <<n, d>>
RatLess(a, b) == a[1] * b[2] < b[1] * a[2]
RatLeq(a, b) == a[1] * b[2] <= b[1] * a[2]

Return(v) == [raised |-> "none", value |-> v]
Raise(e) == [raised |-> e]

NotCalled == [raised |-> "not called"]
NoArgs == [fn |-> "none"]
NoCall == [handler |-> "none", raised |-> "not called"]

(* Python: sub in s *)
Contains(s, sub) ==
    \E i \in 1..(Len(s) - Len(sub) + 1) : SubSeq(s, i, i + Len(sub) - 1) = sub

(* Python: s.split("+") *)
RECURSIVE SplitPlus(_, _, _)
SplitPlus(s, i, cur) ==
    IF i > Len(s) THEN <<cur>>
    ELSE IF SubSeq(s, i, i) = "+" THEN <<cur>> \o SplitPlus(s, i + 1, "")
    ELSE SplitPlus(s, i + 1, cur \o SubSeq(s, i, i))

Split(s) == SplitPlus(s, 1, "")

----------------------------------------------------------------------------
(* Colorscale builder: plotly_helpers.py *)

COLOR_SCALES ==
    [Set3 |-> <<"#8DD3C7", "#FFFFB3", "#BEBADA", "#FB8072", "#80B1D3", "#FDB462",
                "#B3DE69", "#FCCDE5", "#D9D9D9", "#BC80BD", "#CCEBC5", "#FFED6F">>,
     R_rainbow_10 |-> <<"#FF0000", "#FF9900", "#CCFF00", "#33FF00", "#00FF66",
                        "#00FFFF", "#0066FF", "#3300FF", "#CC00FF", "#FF0099">>,
     D3 |-> <<"#1f77b4", "#ff7f0e", "#2ca02c", "#d62728", "#9467bd",
              "#8c564b", "#e377c2", "#7f7f7f", "#bcbd22", "#17becf">>,
     Plotly |-> <<"#636efa", "#EF553B", "#00cc96", "#ab63fa", "#FFA15A",
                  "#19d3f3", "#FF6692", "#B6E880", "#FF97FF", "#FECB52">>,
     G10 |-> <<"#3366CC", "#DC3912", "#FF9900", "#109618", "#990099",
               "#3B3EAC", "#0099C6", "#DD4477", "#66AA00", "#B82E2E">>,
     Set1 |-> <<"#e41a1c", "#377eb8", "#4daf4a", "#984ea3", "#ff7f00",
                "#ffff33", "#a65628", "#f781bf", "#999999">>,
     Light24 |-> <<"#FD3216", "#00FE35", "#6A76FC", "#FED4C4", "#FE00CE", "#0DF9FF",
                   "#F6F926", "#FF9616", "#479B55", "#EEA6FB", "#DC587D", "#D626FF",
                   "#6E899C", "#00B5F7", "#B68E00", "#C9FBE5", "#FF0092", "#22FFA7",
                   "#E3EE9E", "#86CE00", "#BC7196", "#7E7DCD", "#FC6955", "#E48F72">>,
     Vivid |-> <<"rgb(229, 134, 6)", "rgb(93, 105, 177)", "rgb(82, 188, 163)",
                 "rgb(153, 201, 69)", "rgb(204, 97, 176)", "rgb(36, 121, 108)",
                 "rgb(218, 165, 27)", "rgb(47, 138, 196)", "rgb(118, 78, 159)",
                 "rgb(237, 100, 90)", "rgb(165, 170, 153)">>,
     Pastel |-> <<"rgb(102, 197, 204)", "rgb(246, 207, 113)", "rgb(248, 156, 116)",
                  "rgb(220, 176, 242)", "rgb(135, 197, 95)", "rgb(158, 185, 243)",
                  "rgb(254, 136, 177)", "rgb(201, 219, 116)", "rgb(139, 224, 164)",
                  "rgb(180, 151, 231)", "rgb(179, 179, 179)">>]

(* np.linspace(0, 1, n_colors + 1): n_colors + 1 evenly spaced points, the *)
(* k-th (from 0) being k / n_colors; a single point 0 when n_colors = 0.   *)
linspace(n_colors) ==
    IF n_colors = 0 THEN <<Rat(0, 1)>>
    ELSE [k \in 1..(n_colors + 1) |-> Rat(k - 1, n_colors)]

(* A palette lookup that falls back to the default palette instead of raising. *)
lookup_palette_default(pal) ==
    IF pal \in DOMAIN COLOR_SCALES THEN Return(COLOR_SCALES[pal])
    ELSE Return(COLOR_SCALES["Set3"])

(* if pal in COLOR_SCALES: colors = COLOR_SCALES[pal]  else: raise ValueError *)
lookup_palette(pal) ==
    IF pal \in DOMAIN COLOR_SCALES THEN Return(COLOR_SCALES[pal])
    ELSE Raise("ValueError")

(* colors[:n_colors] *)
slice_to(colors, n_colors) ==
    SubSeq(colors, 1, IF n_colors < Len(colors) THEN n_colors ELSE Len(colors))

(* Both entries of a color at the position where its interval starts. *)
colorscale_entries_same_position(scaled_values, colors, i) ==
    <<<<scaled_values[i + 1], colors[i + 1]>>, <<scaled_values[i + 1], colors[i + 1]>>>>

(* entry1 = (scaled_values[i], colors[i]); entry2 = (scaled_values[i + 1], colors[i]) *)
(* with i counted from 0 as in the code.                                              *)
colorscale_entries(scaled_values, colors, i) ==
    <<<<scaled_values[i + 1], colors[i + 1]>>, <<scaled_values[i + 2], colors[i + 1]>>>>

(* for i in range(n_colors): ... colorscale.extend((entry1, entry2))       *)
(* colors[i] raises IndexError as soon as i reaches len(colors).           *)
RECURSIVE colorscale_loop(_, _, _, _, _)
colorscale_loop(scaled_values, colors, n_colors, i, colorscale) ==
    IF i >= n_colors THEN Return(colorscale)
    ELSE IF i + 1 > Len(colors) THEN Raise("IndexError")
    ELSE colorscale_loop(scaled_values, colors, n_colors, i + 1,
                         colorscale \o colorscale_entries(scaled_values, colors, i))

make_colorscale_distinct(n_colors, pal) ==
    LET scaled_values == linspace(n_colors)
        found == lookup_palette(pal)
    IN  IF found.raised # "none" THEN found
        ELSE colorscale_loop(scaled_values, slice_to(found.value, n_colors), n_colors, 0, <<>>)

----------------------------------------------------------------------------
(* Surface descriptor builder: plotly_helpers.py *)

LINE_COLOR == "black"
LINE_WIDTH == 5
TICK_LEN == 20
ANNOTATION_FONT == [size |-> 35, color |-> "black", family |-> "Arial"]

(* np.arange(start, stop, step) *)
RECURSIVE arange(_, _, _)
arange(start, stop, step) ==
    IF start >= stop THEN <<>> ELSE <<start>> \o arange(start + step, stop, step)

(* Colorbar ticks at every unit whatever n_colors is. *)
colorbar_ticks_every_unit(n_colors) == arange(0, n_colors + 1, 1)

(* tickvals / ticktext of the colorbar *)
colorbar_ticks(n_colors) ==
    IF n_colors > 6 THEN arange(0, n_colors + 1, 2) ELSE arange(0, n_colors + 1, 1)

create_surface(x, y, z, colors_scaled, n_colors, opacity, show_colorbar, ambient_light) ==
    [type |-> "surface",
     x |-> x, y |-> y, z |-> z,
     opacity |-> opacity,
     colorscale |-> colors_scaled,
     cmin |-> 0,
     cmax |-> n_colors,
     showscale |-> show_colorbar,
     colorbar |-> [tickmode |-> "array",
                   tickvals |-> colorbar_ticks(n_colors),
                   ticktext |-> colorbar_ticks(n_colors),
                   orientation |-> "v"],
     contours |-> [x |-> [show |-> TRUE, color |-> LINE_COLOR, width |-> LINE_WIDTH],
                   y |-> [show |-> TRUE, color |-> LINE_COLOR, width |-> LINE_WIDTH]],
     hoverinfo |-> "skip",
     lighting |-> [ambient |-> ambient_light, diffuse |-> Rat(1, 2)]]

----------------------------------------------------------------------------
(* Scene layout builder: plotly_helpers.py *)

(* A corner lookup that answers 0 for a grid without a last value. *)
_extracted_corner_or_zero(arg0) ==
    IF Len(arg0) = 0 THEN Return(0)
    ELSE IF Len(arg0[Len(arg0)]) = 0 THEN Return(0)
    ELSE Return(arg0[Len(arg0)][Len(arg0[Len(arg0)])])

(* arg0[-1][-1]; indexing an empty list raises IndexError *)
_extracted_from_create_layout_31(arg0) ==
    IF Len(arg0) = 0 THEN Raise("IndexError")
    ELSE IF Len(arg0[Len(arg0)]) = 0 THEN Raise("IndexError")
    ELSE Return(arg0[Len(arg0)][Len(arg0[Len(arg0)])])

y_tick_labels_cs == <<"0", "0.5", "1.0", "1.5">>
y_tick_vals_cs == <<Rat(0, 1), Rat(1, 2), Rat(1, 1), Rat(3, 2)>>
y_tick_labels_wpi == <<"15", "12", "9", "6">>
y_tick_vals_wpi == <<Rat(15, 1), Rat(12, 1), Rat(9, 1), Rat(6, 1)>>
z_tick_labels_see == <<"", "2", "4", "6", "8", "10", "12", "14">>
z_tick_vals_see == <<0, 2, 4, 6, 8, 10, 12, 14>>
z_tick_labels_wpi == <<"", "2", "4", "6", "8", "10", "12", "14", "16", "18", "20">>
z_tick_vals_wpi == <<0, 2, 4, 6, 8, 10, 12, 14, 16, 18, 20>>

(* A Y axis that looks at the second identifier. *)
layout_yaxis_by_surface_2(surface_1_name, surface_2_name) ==
    [range |-> IF Contains(surface_2_name, "WPI")
               THEN <<Rat(15, 1), Rat(6, 1)>> ELSE <<Rat(0, 1), Rat(3, 2)>>,
     ticktext |-> IF Contains(surface_2_name, "WPI")
                  THEN y_tick_labels_wpi ELSE y_tick_labels_cs,
     tickvals |-> IF Contains(surface_2_name, "WPI")
                  THEN y_tick_vals_wpi ELSE y_tick_vals_cs,
     tickmode |-> "array",
     ticklen |-> TICK_LEN]

(* yaxis=dict(range=..., ticktext=..., tickvals=...) *)
layout_yaxis(surface_1_name, surface_2_name) ==
    [range |-> IF Contains(surface_1_name, "WPI")
               THEN <<Rat(15, 1), Rat(6, 1)>> ELSE <<Rat(0, 1), Rat(3, 2)>>,
     ticktext |-> IF Contains(surface_1_name, "WPI")
                  THEN y_tick_labels_wpi ELSE y_tick_labels_cs,
     tickvals |-> IF Contains(surface_1_name, "WPI")
                  THEN y_tick_vals_wpi ELSE y_tick_vals_cs,
     tickmode |-> "array",
     ticklen |-> TICK_LEN]

(* A Z axis whose ticks follow "SEE" like its range. *)
layout_zaxis_ticks_by_see(surface_1_name) ==
    LET is_see == Contains(surface_1_name, "SEE")
    IN  [range |-> IF is_see THEN <<0, 14>> ELSE <<0, 6>>,
         ticktext |-> IF is_see THEN z_tick_labels_see ELSE z_tick_labels_wpi,
         tickvals |-> IF is_see THEN z_tick_vals_see ELSE z_tick_vals_wpi,
         tickmode |-> "array",
         ticklen |-> TICK_LEN]

(* is_wpi = "WPI" in surface_1_name                                          *)
(* z_tick_labels_shown = z_tick_labels_wpi if is_wpi else z_tick_labels_see  *)
(* z_tick_vals_shown = z_tick_vals_wpi if is_wpi else z_tick_vals_see        *)
(* zaxis=dict(range=[0, 14] if "SEE" in surface_1_name else [0, 6], ...)     *)
layout_zaxis(surface_1_name) ==
    LET is_wpi == Contains(surface_1_name, "WPI")
    IN  [range |-> IF Contains(surface_1_name, "SEE") THEN <<0, 14>> ELSE <<0, 6>>,
         ticktext |-> IF is_wpi THEN z_tick_labels_wpi ELSE z_tick_labels_see,
         tickvals |-> IF is_wpi THEN z_tick_vals_wpi ELSE z_tick_vals_see,
         tickmode |-> "array",
         ticklen |-> TICK_LEN]

layout_xaxis ==
    [range |-> <<0, 10>>,
     ticktext |-> <<"0", "2", "4", "6", "8", "10">>,
     tickvals |-> <<0, 2, 4, 6, 8, 10>>,
     tickmode |-> "array",
     ticklen |-> TICK_LEN]

(* scene.annotations: three axis labels and one pointer per surface *)
layout_annotations(x_label, y_label, z_label, surface_1_name, surface_2_name, annotation_1_z, annotation_2_z) ==
    LET pointer_y == IF ~Contains(surface_1_name, "WPI") THEN Rat(3, 2) ELSE Rat(1, 2)
    IN  <<[x |-> Rat(3, 1), y |-> Rat(1, 5), z |-> 0, text |-> x_label,
           showarrow |-> FALSE, font |-> ANNOTATION_FONT],
          [x |-> Rat(49, 5), y |-> Rat(1, 4), z |-> 0, text |-> y_label,
           showarrow |-> FALSE, font |-> ANNOTATION_FONT],
          [x |-> Rat(0, 1), y |-> Rat(1, 50),
           z |-> IF ~Contains(surface_1_name, "SEE") THEN 3 ELSE 7, text |-> z_label,
           showarrow |-> FALSE, font |-> ANNOTATION_FONT],
          [x |-> Rat(10, 1), y |-> pointer_y, z |-> annotation_1_z,
           text |-> surface_1_name, ax |-> 70, ay |-> -20],
          [x |-> Rat(10, 1), y |-> pointer_y, z |-> annotation_2_z,
           text |-> surface_2_name, ax |-> 70, ay |-> 20]>>

create_layout(x_label, y_label, z_label, surface_1_name, surface_2_name, surface_1_2d_list, surface_2_2d_list, x_scale, y_scale, z_scale) ==
    LET annotation_1_z == _extracted_from_create_layout_31(surface_1_2d_list)
        annotation_2_z == _extracted_from_create_layout_31(surface_2_2d_list)
    IN  IF annotation_1_z.raised # "none" THEN annotation_1_z
        ELSE IF annotation_2_z.raised # "none" THEN annotation_2_z
        ELSE Return(
            [autosize |-> FALSE,
             height |-> 900,
             title |-> "",
             scene |-> [aspectmode |-> "manual",
                        aspectratio |-> [x |-> x_scale, y |-> y_scale, z |-> z_scale],
                        xaxis |-> layout_xaxis,
                        yaxis |-> layout_yaxis(surface_1_name, surface_2_name),
                        zaxis |-> layout_zaxis(surface_1_name),
                        annotations |-> layout_annotations(x_label, y_label, z_label,
                                            surface_1_name, surface_2_name,
                                            annotation_1_z.value, annotation_2_z.value),
                        camera |-> [center |-> [x |-> Rat(1, 5), y |-> Rat(1, 10), z |-> Rat(0, 1)],
                                    eye |-> [x |-> Rat(24, 25), y |-> Rat(-28, 25),
                                             z |-> Rat(13, 50)]]]])

----------------------------------------------------------------------------
(* Annotation traces: plotly_helpers.py *)

(* figure.add_scatter3d(x=..., y=..., z=..., mode='text', text=..., ...) *)
scatter3d_trace(trace) ==
    [type |-> "scatter3d",
     x |-> trace.x, y |-> trace.y, z |-> trace.z,
     mode |-> "text",
     text |-> trace.text,
     textposition |-> "top center",
     textfont |-> [family |-> "Arial", size |-> 18, color |-> "black"],
     showlegend |-> FALSE]

(* figure.add_cone(x=..., y=..., z=..., w=[-2], anchor="tip", colorscale=..., ...) *)
cone_trace(trace) ==
    [type |-> "cone",
     x |-> trace.x, y |-> trace.y, z |-> trace.z,
     u |-> <<0>>, v |-> <<0>>, w |-> <<-2>>,
     anchor |-> "tip",
     colorscale |-> <<<<0, trace.color>>, <<1, trace.color>>>>,
     showscale |-> FALSE,
     showlegend |-> FALSE]

(* for trace in data: scatter3d -> add_scatter3d, cone -> add_cone, other types skipped *)
RECURSIVE add_traces_to_figure(_, _)
add_traces_to_figure(figure, data) ==
    IF data = <<>> THEN figure
    ELSE LET trace == Head(data)
             added == IF trace.type = "scatter3d"
                      THEN [figure EXCEPT !.data = @ \o <<scatter3d_trace(trace)>>]
                      ELSE IF trace.type = "cone"
                      THEN [figure EXCEPT !.data = @ \o <<cone_trace(trace)>>]
                      ELSE figure
         IN  add_traces_to_figure(added, Tail(data))

----------------------------------------------------------------------------
(* The dataset read at startup: app.py loads it from a pickle that is not  *)
(* part of the sources.  This is a dataset of the shape the code reads:    *)
(* four groups in the order select_graph indexes them (0: current speed /  *)
(* EV, 1: current speed / SEE, 2: wave period / EV, 3: wave period / SEE), *)
(* each with its axes, its grids by identifier, its color group counts,    *)
(* its precomputed colorscales and the pairs to compare.                   *)

axes_xy == [x |-> [values |-> <<0, 10>>], y |-> [values |-> <<0, 1>>]]

surface_data ==
    <<[name |-> "CS_EV",
       axes |-> axes_xy,
       files |-> [WIP_EV_A |-> <<<<1, 2>>, <<4, 3>>>>,
                  CS_EV_B |-> <<<<2, 3>>, <<5, 4>>>>],
       n_colors |-> [WIP_EV_A |-> 2, CS_EV_B |-> 2],
       colorscale |-> [WIP_EV_A |-> make_colorscale_distinct(2, "Set1").value,
                       CS_EV_B |-> make_colorscale_distinct(2, "Set3").value],
       combinations |-> <<<<"WIP_EV_A", "CS_EV_B">>>>],
      [name |-> "CS_SEE",
       axes |-> axes_xy,
       files |-> [CS_SEE_A |-> <<<<2, 8>>, <<6, 4>>>>,
                  CS_SEE_B |-> <<<<1, 3>>, <<5, 7>>>>],
       n_colors |-> [CS_SEE_A |-> 2, CS_SEE_B |-> 2],
       colorscale |-> [CS_SEE_A |-> make_colorscale_distinct(4, "D3").value,
                       CS_SEE_B |-> make_colorscale_distinct(4, "D3").value],
       combinations |-> <<<<"CS_SEE_A", "CS_SEE_B">>>>],
      [name |-> "WPI_EV",
       axes |-> axes_xy,
       files |-> [WPI_EV_A |-> <<<<4, 1>>, <<2, 3>>>>,
                  WPI_EV_B |-> <<<<0, 4>>, <<1, 2>>>>],
       n_colors |-> [WPI_EV_A |-> 2, WPI_EV_B |-> 2],
       colorscale |-> [WPI_EV_A |-> make_colorscale_distinct(2, "Set3").value,
                       WPI_EV_B |-> make_colorscale_distinct(2, "Set3").value],
       combinations |-> <<<<"WPI_EV_A", "WPI_EV_B">>>>],
      [name |-> "WPI_SEE",
       axes |-> axes_xy,
       files |-> [WPI_SEE_A |-> <<<<3, 9>>, <<12, 6>>>>,
                  WPI_SEE_B |-> <<<<4, 10>>, <<14, 7>>>>],
       n_colors |-> [WPI_SEE_A |-> 2, WPI_SEE_B |-> 2],
       colorscale |-> [WPI_SEE_A |-> make_colorscale_distinct(4, "D3").value,
                       WPI_SEE_B |-> make_colorscale_distinct(4, "D3").value],
       combinations |-> <<<<"WPI_SEE_A", "WPI_SEE_B">>>>]>>

----------------------------------------------------------------------------
(* Startup: app.py builds one figure per pair of every group *)

(* ndarray.T of a 2D array *)
Transpose(m) ==
    IF Len(m) = 0 THEN m
    ELSE [c \in 1..Len(m[1]) |-> [r \in 1..Len(m) |-> m[r][c]]]

(* ndarray.max() of a non-empty 2D array *)
array_max(m) ==
    CHOOSE v \in {m[r][c] : r \in 1..Len(m), c \in 1..Len(m[1])} :
        \A r \in 1..Len(m), c \in 1..Len(m[1]) : m[r][c] <= v

(* An emphasis of surface 1 that also treats a tie as "surface 2 is higher". *)
surface_1_emphasis_tie_to_2(data_1_max, data_2_max) ==
    [opacity |-> IF data_2_max >= data_1_max THEN Rat(1, 1) ELSE Rat(4, 5),
     show_colorbar |-> IF data_2_max >= data_1_max THEN FALSE ELSE TRUE,
     ambient_light |-> IF data_2_max >= data_1_max THEN Rat(9, 10) ELSE Rat(1, 2)]

(* opacity=1.0 if data_2_max > data_1_max else 0.8, show_colorbar=False if ... else True, *)
(* ambient_light=0.9 if ... else 0.5                                                     *)
surface_1_emphasis(data_1_max, data_2_max) ==
    [opacity |-> IF data_2_max > data_1_max THEN Rat(1, 1) ELSE Rat(4, 5),
     show_colorbar |-> IF data_2_max > data_1_max THEN FALSE ELSE TRUE,
     ambient_light |-> IF data_2_max > data_1_max THEN Rat(9, 10) ELSE Rat(1, 2)]

(* An emphasis of surface 2 that never shows its colorbar. *)
surface_2_emphasis_never_shown(data_1_max, data_2_max) ==
    [opacity |-> Rat(1, 1), show_colorbar |-> FALSE, ambient_light |-> Rat(9, 10)]

(* opacity=0.8 if data_2_max > data_1_max else 1.0, show_colorbar=True if ... else False, *)
(* ambient_light=0.5 if ... else 0.9                                                     *)
surface_2_emphasis(data_1_max, data_2_max) ==
    [opacity |-> IF data_2_max > data_1_max THEN Rat(4, 5) ELSE Rat(1, 1),
     show_colorbar |-> IF data_2_max > data_1_max THEN TRUE ELSE FALSE,
     ambient_light |-> IF data_2_max > data_1_max THEN Rat(1, 2) ELSE Rat(9, 10)]

(* n_colors=group["n_colors"][name] if "SEE" not in name else group["n_colors"][name] * 2 *)
surface_n_colors(group, name) ==
    IF ~Contains(name, "SEE") THEN group.n_colors[name] ELSE group.n_colors[name] * 2

(* The body of the trace loop for one pair, given the two grids read for it. *)
pair_traces(group, names, files_1, files_2) ==
    LET data_1 == IF Contains(names[1], "WIP") THEN Transpose(files_1) ELSE files_1
        data_2 == IF Contains(names[1], "WIP") THEN Transpose(files_2) ELSE files_2
        data_1_max == array_max(data_1)
        data_2_max == array_max(data_2)
        e1 == surface_1_emphasis(data_1_max, data_2_max)
        e2 == surface_2_emphasis(data_1_max, data_2_max)
    IN  <<create_surface(group.axes.x.values, group.axes.y.values, data_1,
                         group.colorscale[names[1]], surface_n_colors(group, names[1]),
                         e1.opacity, e1.show_colorbar, e1.ambient_light),
          create_surface(group.axes.x.values, group.axes.y.values, data_2,
                         group.colorscale[names[2]], surface_n_colors(group, names[2]),
                         e2.opacity, e2.show_colorbar, e2.ambient_light)>>

(* The layout both the startup loop and select_graph ask for. *)
pair_layout(surf_name_1, surf_name_2, s1, s2) ==
    create_layout("Wave Height [m]",
                  IF Contains(surf_name_1, "WPI") THEN "Wave Period [s]" ELSE "Current Speed [m/s]",
                  IF Contains(surf_name_1, "SEE") THEN "SEE Index" ELSE "EVRD Index",
                  surf_name_1, surf_name_2, s1, s2, Rat(1, 1), Rat(1, 2), Rat(1, 2))

(* Every (group, pair) in the order the two startup loops visit them. *)
RECURSIVE all_pairs(_)
all_pairs(g) ==
    IF g > Len(surface_data) THEN <<>>
    ELSE [i \in 1..Len(surface_data[g].combinations) |->
             [group |-> surface_data[g], names |-> surface_data[g].combinations[i]]]
         \o all_pairs(g + 1)

traces ==
    [i \in 1..Len(all_pairs(1)) |->
        LET p == all_pairs(1)[i]
        IN  pair_traces(p.group, p.names, p.group.files[p.names[1]], p.group.files[p.names[2]])]

layouts ==
    [i \in 1..Len(all_pairs(1)) |->
        LET p == all_pairs(1)[i]
        IN  pair_layout(p.names[1], p.names[2],
                        p.group.files[p.names[1]], p.group.files[p.names[2]]).value]

dropdown_options ==
    [i \in 1..Len(all_pairs(1)) |->
        LET p == all_pairs(1)[i] IN p.names[1] \o "+" \o p.names[2]]

dropdown_values == {dropdown_options[i] : i \in 1..Len(dropdown_options)}

(* figures = {option["value"]: go.Figure(data=traces[i], layout=layouts[i]).to_dict() ...} *)
figures ==
    [t \in dropdown_values |->
        LET i == CHOOSE j \in 1..Len(dropdown_options) :
                     /\ dropdown_options[j] = t
                     /\ \A k \in (j + 1)..Len(dropdown_options) : dropdown_options[k] # t
        IN  [data |-> traces[i], layout |-> layouts[i]]]

(* value= of the dropdown: the first pair of the second group *)
initial_selection ==
    surface_data[2].combinations[1][1] \o "+" \o surface_data[2].combinations[1][2]

----------------------------------------------------------------------------
(* Callbacks: app.py *)

(* go.Figure(figure_dict): the empty figure when the property was never set *)
Figure(figure_dict) ==
    IF figure_dict = None THEN [data |-> <<>>, layout |-> [k \in {} |-> None]]
    ELSE figure_dict

(* d[key] = value on a Python dict: replaces the entry, or adds the key *)
dict_set(d, key, value) ==
    [k \in DOMAIN d \cup {key} |-> IF k = key THEN value ELSE d[k]]

(* fig.update_layout(layout, uirevision=title): the properties given replace *)
(* the figure's, the others stay                                             *)
update_layout(fig, layout, uirevision) ==
    [fig EXCEPT !.layout =
        [k \in DOMAIN fig.layout \cup DOMAIN layout \cup {"uirevision"} |->
            IF k = "uirevision" THEN uirevision
            ELSE IF k \in DOMAIN layout THEN layout[k]
            ELSE fig.layout[k]]]

(* A chain that tells the groups apart by "SEE" / "EV" alone. *)
select_group_ignoring_wpi(title) ==
    IF Contains(title, "SEE") THEN Some(1)
    ELSE IF Contains(title, "EV") THEN Some(0)
    ELSE None

(* The if / elif chain that picks the group index from the title. *)
select_group(title) ==
    IF Contains(title, "WPI") /\ Contains(title, "SEE") THEN Some(3)
    ELSE IF Contains(title, "WPI") /\ Contains(title, "EV") THEN Some(2)
    ELSE IF ~Contains(title, "WPI") /\ Contains(title, "SEE") THEN Some(1)
    ELSE IF ~Contains(title, "WPI") /\ Contains(title, "EV") THEN Some(0)
    ELSE None

select_graph(title, figures_dict) ==
    LET parts == Split(title)
    IN  IF Len(parts) < 2 THEN Raise("IndexError")
        ELSE
        LET surf_name_1 == parts[1]
            surf_name_2 == parts[2]
            group == select_group(title)
        IN  IF ~group.some THEN Raise("ValueError")
            ELSE
            LET files == surface_data[group.val + 1].files
            IN  IF surf_name_1 \notin DOMAIN files \/ surf_name_2 \notin DOMAIN files
                THEN Raise("KeyError")
                ELSE
                LET layout == pair_layout(surf_name_1, surf_name_2,
                                          files[surf_name_1], files[surf_name_2])
                IN  IF layout.raised # "none" THEN layout
                    ELSE IF title \notin DOMAIN figures_dict THEN Raise("KeyError")
                    ELSE
                    LET fig == update_layout(Figure(figures_dict[title]), layout.value, title)
                    IN  Return([fig |-> fig,
                                figures_dict |-> dict_set(figures_dict, title, fig)])

(* Annotation traces whose cone sits at z itself. *)
annotation_data_dicts_cone_at_z(x, y, z, text, color) ==
    <<[type |-> "scatter3d", x |-> <<x>>, y |-> <<y>>, z |-> <<z>>, text |-> <<text>>],
      [type |-> "cone", x |-> <<x>>, y |-> <<y>>, z |-> <<z>>, color |-> color]>>

(* data_dicts = [{'type': 'scatter3d', ... 'z': [z], 'text': [text]},        *)
(*               {'type': 'cone', ... 'z': [z-1], 'color': color}]           *)
annotation_data_dicts(x, y, z, text, color) ==
    <<[type |-> "scatter3d", x |-> <<x>>, y |-> <<y>>, z |-> <<z>>, text |-> <<text>>],
      [type |-> "cone", x |-> <<x>>, y |-> <<y>>, z |-> <<Rat(z[1] - z[2], z[2])>>,
       color |-> color]>>

(* An add_trace without the n_clicks check. *)
add_trace_always(clicks, x, y, z, text, color, figure_dict, selected_graph, figures_dict) ==
    IF ~z.some THEN Raise("TypeError")
    ELSE Return(dict_set(figures_dict, selected_graph,
                         add_traces_to_figure(Figure(figure_dict),
                             annotation_data_dicts(x, y, z.val, text, color))))

(* An add_trace that starts from an empty figure instead of the displayed one. *)
add_trace_from_empty(clicks, x, y, z, text, color, figure_dict, selected_graph, figures_dict) ==
    IF ~clicks.some THEN Return(figures_dict)
    ELSE IF ~z.some THEN Raise("TypeError")
    ELSE Return(dict_set(figures_dict, selected_graph,
                         add_traces_to_figure(Figure(None),
                             annotation_data_dicts(x, y, z.val, text, color))))

(* if n_clicks is None: return figures_dict                                  *)
(* figure = go.Figure(figure_dict); z - 1 raises TypeError when the Z field  *)
(* is empty (None); figures_dict[selected_graph] = figure.to_dict()          *)
add_trace(clicks, x, y, z, text, color, figure_dict, selected_graph, figures_dict) ==
    IF ~clicks.some THEN Return(figures_dict)
    ELSE IF ~z.some THEN Raise("TypeError")
    ELSE Return(dict_set(figures_dict, selected_graph,
                         add_traces_to_figure(Figure(figure_dict),
                             annotation_data_dicts(x, y, z.val, text, color))))

(* An update_graph that never redraws. *)
update_graph_never_redraws(figures_dict, selected_graph, first) == Raise("PreventUpdate")

(* first is ctx.triggered[0]['prop_id']; PreventUpdate leaves the output alone *)
update_graph(figures_dict, selected_graph, first) ==
    IF first = "figure-store.data"
    THEN IF selected_graph \in DOMAIN figures_dict
         THEN Return(Figure(figures_dict[selected_graph]))
         ELSE Raise("KeyError")
    ELSE Raise("PreventUpdate")

----------------------------------------------------------------------------
(* The dashboard as a state machine.  Each UI event is handled to          *)
(* completion before the next one: the callback it triggers runs, then     *)
(* update_graph, which has the store as an input, runs.  The page load     *)
(* runs select_graph and add_trace once each, in no guaranteed order       *)
(* (prevent_initial_callbacks='initial_duplicate'), then update_graph.     *)

MaxClicks == 2

InputX == {Rat(2, 1)}
InputY == {Rat(1, 2)}
InputZ == {Some(Rat(215, 100)), None}
InputText == {"Max working conditions"}
InputColor == {"rgb(0, 255, 0)", "red"}

(* Selector strings the dropdown does not offer. *)
OtherSelectors ==
    {"FOO", "CS_SEE_A", "FOO+BAR", "CS_SEE_A+CS_SEE_X", "CS_SEE_B+CS_SEE_A"}

AppInit ==
    /\ figure_store = figures
    /\ plot_figure = None
    /\ graph_selector = initial_selection
    /\ n_clicks = None
    /\ pending = {"select_graph", "add_trace", "update_graph"}
    /\ triggered = {}
    /\ call = NoCall
    /\ adds = [k \in DOMAIN figures |-> 0]

Init ==
    /\ AppInit
    /\ args = NoArgs
    /\ result = NotCalled

(* select_graph runs on title; its outputs, when it returns, replace the   *)
(* displayed figure and the store.                                         *)
RunSelectGraph(title) ==
    LET r == select_graph(title, figure_store)
    IN  /\ call' = [handler |-> "select_graph", title |-> title,
                    figures_dict |-> figure_store, figure_dict |-> plot_figure,
                    raised |-> r.raised]
        /\ IF r.raised = "none"
           THEN /\ plot_figure' = r.value.fig
                /\ figure_store' = r.value.figures_dict
           ELSE UNCHANGED <<plot_figure, figure_store>>

(* add_trace runs with the click counter and the input fields as given and *)
(* the displayed figure, the selection and the store as they are.          *)
RunAddTrace(clicks, x, y, z, text, color) ==
    LET r == add_trace(clicks, x, y, z, text, color, plot_figure, graph_selector, figure_store)
    IN  /\ call' = [handler |-> "add_trace", n_clicks |-> clicks,
                    x |-> x, y |-> y, z |-> z, text |-> text, color |-> color,
                    figure_dict |-> plot_figure, selected_graph |-> graph_selector,
                    figures_dict |-> figure_store, raised |-> r.raised]
        /\ IF r.raised = "none"
           THEN figure_store' = r.value
           ELSE UNCHANGED figure_store
        /\ adds' = IF r.raised = "none" /\ clicks.some
                   THEN [k \in DOMAIN adds \cup {graph_selector} |->
                            IF k = graph_selector
                            THEN (IF k \in DOMAIN adds THEN adds[k] ELSE 0) + 1
                            ELSE adds[k]]
                   ELSE adds

InitialSelectGraph ==
    /\ "select_graph" \in pending
    /\ RunSelectGraph(graph_selector)
    /\ pending' = pending \ {"select_graph"}
    /\ triggered' = triggered \cup
                        (IF call'.raised = "none"
                         THEN {"graph-selector.value", "figure-store.data"}
                         ELSE {"graph-selector.value"})
    /\ UNCHANGED <<graph_selector, n_clicks, adds, args, result>>

InitialAddTrace ==
    /\ "add_trace" \in pending
    /\ \E x \in InputX, y \in InputY, z \in InputZ, text \in InputText, color \in InputColor :
           RunAddTrace(n_clicks, x, y, z, text, color)
    /\ pending' = pending \ {"add_trace"}
    /\ triggered' = triggered \cup (IF call'.raised = "none" THEN {"figure-store.data"} ELSE {})
    /\ UNCHANGED <<plot_figure, graph_selector, n_clicks, args, result>>

SelectPair(title) ==
    /\ pending = {}
    /\ graph_selector' = title
    /\ RunSelectGraph(title)
    /\ pending' = {"update_graph"}
    /\ triggered' = IF call'.raised = "none"
                    THEN {"graph-selector.value", "figure-store.data"}
                    ELSE {"graph-selector.value"}
    /\ UNCHANGED <<n_clicks, adds, args, result>>

(* select_graph invoked with a selector string that is no dropdown option: *)
(* the dropdown keeps its value.                                           *)
SelectOther(title) ==
    /\ pending = {}
    /\ RunSelectGraph(title)
    /\ pending' = IF call'.raised = "none" THEN {"update_graph"} ELSE {}
    /\ triggered' = IF call'.raised = "none" THEN {"figure-store.data"} ELSE {}
    /\ UNCHANGED <<graph_selector, n_clicks, adds, args, result>>

AddAnnotation(x, y, z, text, color) ==
    /\ pending = {}
    /\ (IF n_clicks.some THEN n_clicks.val ELSE 0) < MaxClicks
    /\ n_clicks' = Some((IF n_clicks.some THEN n_clicks.val ELSE 0) + 1)
    /\ RunAddTrace(n_clicks', x, y, z, text, color)
    /\ pending' = IF call'.raised = "none" THEN {"update_graph"} ELSE {}
    /\ triggered' = IF call'.raised = "none" THEN {"figure-store.data"} ELSE {}
    /\ UNCHANGED <<plot_figure, graph_selector, args, result>>

(* update_graph; which of several changed inputs comes first in            *)
(* ctx.triggered is the framework's choice.                                *)
UpdateGraph ==
    /\ pending = {"update_graph"}
    /\ \E first \in triggered :
           LET r == update_graph(figure_store, graph_selector, first)
           IN  IF r.raised = "none" THEN plot_figure' = r.value ELSE UNCHANGED plot_figure
    /\ pending' = {}
    /\ triggered' = {}
    /\ UNCHANGED <<figure_store, graph_selector, n_clicks, call, adds, args, result>>

Next ==
    \/ InitialSelectGraph
    \/ InitialAddTrace
    \/ \E title \in dropdown_values : SelectPair(title)
    \/ \E title \in OtherSelectors : SelectOther(title)
    \/ \E x \in InputX, y \in InputY, z \in InputZ, text \in InputText, color \in InputColor :
           AddAnnotation(x, y, z, text, color)
    \/ UpdateGraph

Spec == Init /\ [][Next]_vars

----------------------------------------------------------------------------
(* The builders on their own: a call's arguments are drawn from bounded    *)
(* sets, one step applies the builder.                                     *)

MaxNColors == 25
MaxCell == 2

PaletteNames == DOMAIN COLOR_SCALES \cup {"RCB_Set3_12", "Viridis"}

Identifiers == {"WPI_SEE_A", "WPI_SEE_B", "WPI_EV_A", "CS_SEE_A", "CS_EV_A", "WIP_EV_A"}

NamePairs ==
    {<<"CS_EV_A", "CS_EV_B">>, <<"WIP_EV_A", "CS_EV_B">>, <<"WPI_SEE_A", "WPI_SEE_B">>}

(* One-row and one-column grids of cells 0..MaxCell *)
Grids ==
    {<<<<a, b>>>> : a \in 0..MaxCell, b \in 0..MaxCell}
        \cup {<<<<a>>, <<b>>>> : a \in 0..MaxCell, b \in 0..MaxCell}

(* No rows; one row without values; a last row without values *)
EmptyGrids == {<<>>, <<<<>>>>, <<<<1>>, <<>>>>}

(* A group holding the two identifiers of a pair, as the trace loop reads it. *)
group_of(names) ==
    [axes |-> axes_xy,
     n_colors |-> [n \in {names[1], names[2]} |-> 2],
     colorscale |-> [n \in {names[1], names[2]} |->
                        make_colorscale_distinct(IF Contains(n, "SEE") THEN 4 ELSE 2,
                                                 "Set3").value]]

InitColorscale ==
    /\ AppInit
    /\ args \in [fn : {"make_colorscale_distinct"}, n_colors : 0..MaxNColors,
                 pal : PaletteNames]
    /\ result = NotCalled

CallColorscale ==
    /\ args.fn = "make_colorscale_distinct"
    /\ result = NotCalled
    /\ result' = make_colorscale_distinct(args.n_colors, args.pal)
    /\ UNCHANGED <<args, appvars>>

SpecColorscale == InitColorscale /\ [][CallColorscale]_vars

InitLayout ==
    /\ AppInit
    /\ args \in [fn : {"create_layout"},
                 surface_1_name : Identifiers, surface_2_name : Identifiers,
                 surface_1_2d_list : Grids \cup EmptyGrids,
                 surface_2_2d_list : Grids \cup EmptyGrids]
    /\ result = NotCalled

CallLayout ==
    /\ args.fn = "create_layout"
    /\ result = NotCalled
    /\ result' = pair_layout(args.surface_1_name, args.surface_2_name,
                             args.surface_1_2d_list, args.surface_2_2d_list)
    /\ UNCHANGED <<args, appvars>>

SpecLayout == InitLayout /\ [][CallLayout]_vars

InitEmphasis ==
    /\ AppInit
    /\ args \in [fn : {"pair_traces"}, names : NamePairs, files_1 : Grids, files_2 : Grids]
    /\ result = NotCalled

CallEmphasis ==
    /\ args.fn = "pair_traces"
    /\ result = NotCalled
    /\ result' = Return(pair_traces(group_of(args.names), args.names,
                                    args.files_1, args.files_2))
    /\ UNCHANGED <<args, appvars>>

SpecEmphasis == InitEmphasis /\ [][CallEmphasis]_vars

InitSurface ==
    /\ AppInit
    /\ args \in [fn : {"create_surface"}, z : Grids, n_colors : 0..MaxNColors,
                 opacity : {Rat(1, 1), Rat(4, 5)}, show_colorbar : BOOLEAN,
                 ambient_light : {Rat(9, 10), Rat(1, 2)}]
    /\ result = NotCalled

CallSurface ==
    /\ args.fn = "create_surface"
    /\ result = NotCalled
    /\ result' = Return(create_surface(axes_xy.x.values, axes_xy.y.values, args.z,
                                       make_colorscale_distinct(2, "Set3").value,
                                       args.n_colors, args.opacity, args.show_colorbar,
                                       args.ambient_light))
    /\ UNCHANGED <<args, appvars>>

SpecSurface == InitSurface /\ [][CallSurface]_vars

----------------------------------------------------------------------------
(* Claims *)

(* grid 2 holds a value above every value of grid 1: max2 > max1 *)
SecondIsHigher(g1, g2) ==
    \E r2 \in 1..Len(g2) : \E c2 \in 1..Len(g2[r2]) :
        \A r1 \in 1..Len(g1) : \A c1 \in 1..Len(g1[r1]) : g2[r2][c2] > g1[r1][c1]

IsBackground(surface) ==
    /\ surface.opacity = Rat(1, 1)
    /\ surface.showscale = FALSE
    /\ surface.lighting.ambient = Rat(9, 10)

IsForeground(surface) ==
    /\ surface.opacity = Rat(4, 5)
    /\ surface.showscale = TRUE
    /\ surface.lighting.ambient = Rat(1, 2)

(* C1: in a pair built by the trace loop, if max2 > max1 surface 1 has       *)
(* opacity 1.0, no colorbar, ambient 0.9 and surface 2 opacity 0.8, colorbar,*)
(* ambient 0.5; otherwise, a tie included, the assignment is the reverse.    *)
C1_EmphasisFollowsMax ==
    (args.fn = "pair_traces" /\ result.raised = "none") =>
        IF SecondIsHigher(args.files_1, args.files_2)
        THEN IsBackground(result.value[1]) /\ IsForeground(result.value[2])
        ELSE IsForeground(result.value[1]) /\ IsBackground(result.value[2])

(* A pair with equal maxima was built and surface 1 shows the colorbar. *)
C1_Witness ==
    /\ args.fn = "pair_traces"
    /\ result.raised = "none"
    /\ ~SecondIsHigher(args.files_1, args.files_2)
    /\ ~SecondIsHigher(args.files_2, args.files_1)
    /\ result.value[1].showscale = TRUE

(* C2: a triggered add-annotation stores, under the selected key, the k      *)
(* traces that artifact held, unchanged and in order, then a text label at   *)
(* (x, y, z), then a cone at (x, y, z - 1) of one solid color without        *)
(* colorbar and legend: k + 2 traces.                                        *)
C2_AddAppendsLabelAndCone ==
    (call.handler = "add_trace" /\ call.n_clicks.some /\ call.raised = "none") =>
        LET before == call.figures_dict[call.selected_graph].data
            after == figure_store[call.selected_graph].data
            k == Len(before)
        IN  /\ Len(after) = k + 2
            /\ SubSeq(after, 1, k) = before
            /\ after[k + 1].type = "scatter3d"
            /\ after[k + 1].mode = "text"
            /\ after[k + 1].x = <<call.x>>
            /\ after[k + 1].y = <<call.y>>
            /\ after[k + 1].z = <<call.z.val>>
            /\ after[k + 1].text = <<call.text>>
            /\ after[k + 2].type = "cone"
            /\ after[k + 2].x = <<call.x>>
            /\ after[k + 2].y = <<call.y>>
            /\ after[k + 2].z = <<Rat(call.z.val[1] - call.z.val[2], call.z.val[2])>>
            /\ after[k + 2].colorscale = <<<<0, call.color>>, <<1, call.color>>>>
            /\ after[k + 2].showscale = FALSE
            /\ after[k + 2].showlegend = FALSE

(* The scenario of the specification on an artifact that already holds an *)
(* annotation: z = 2.15 gives a cone at 1.15, 4 traces become 6.          *)
C2_Witness ==
    /\ call.handler = "add_trace"
    /\ call.n_clicks.some
    /\ call.raised = "none"
    /\ call.z = Some(Rat(215, 100))
    /\ Len(call.figures_dict[call.selected_graph].data) = 4
    /\ Len(figure_store[call.selected_graph].data) = 6
    /\ figure_store[call.selected_graph].data[6].z = <<Rat(115, 100)>>

(* C3: no step removes anything: the store keeps exactly the keys it was     *)
(* built with, no artifact loses traces, and each artifact holds its 2       *)
(* surfaces plus 2 traces per add-action stored under it.                    *)
C3_NothingRemoved ==
    [][/\ DOMAIN figure_store' = dropdown_values
       /\ \A k \in dropdown_values :
              /\ Len(figure_store'[k].data) >= Len(figure_store[k].data)
              /\ Len(figure_store'[k].data) = 2 + 2 * adds'[k]
              /\ SubSeq(figure_store'[k].data, 1, 2) = figures[k].data]_vars

(* Two artifacts were annotated, one after the other, and a third is selected. *)
C3_Witness ==
    \E k1 \in DOMAIN figure_store, k2 \in DOMAIN figure_store :
        /\ k1 # k2
        /\ graph_selector \notin {k1, k2}
        /\ Len(figure_store[k1].data) = 4
        /\ Len(figure_store[k2].data) = 4

(* The shape of a colorscale of n colors drawn from a palette. *)
IsSteppedColorscale(colorscale, n, palette) ==
    /\ Len(colorscale) = 2 * n
    /\ \A j \in 1..(2 * n - 1) : RatLeq(colorscale[j][1], colorscale[j + 1][1])
    /\ colorscale[1][1][1] = 0
    /\ colorscale[2 * n][1][1] = colorscale[2 * n][1][2]
    /\ \A i \in 0..(n - 1) :
           /\ colorscale[2 * i + 1] = <<Rat(i, n), palette[i + 1]>>
           /\ colorscale[2 * i + 2] = <<Rat(i + 1, n), palette[i + 1]>>

C5_TruncatesWithoutRaising ==
    (args.fn = "make_colorscale_distinct" /\ result.raised # "not called"
        /\ args.pal \in DOMAIN COLOR_SCALES
        /\ args.n_colors >= Len(COLOR_SCALES[args.pal])) =>
        /\ result.raised = "none"
        /\ {result.value[j][2] : j \in 1..Len(result.value)}
               = {COLOR_SCALES[args.pal][j] : j \in 1..Len(COLOR_SCALES[args.pal])}

(* C6 as stated: range and ticks of the Z axis both follow "SEE" in          *)
(* identifier 1: [0,14] with ticks 0,2,...,14, else [0,6] with ticks         *)
(* 0,2,...,20; the label at 0 is empty, labels and values are as many.       *)
C6_ZAxisBySee ==
    (args.fn = "create_layout" /\ result.raised = "none") =>
        LET zaxis == result.value.scene.zaxis
        IN  /\ IF Contains(args.surface_1_name, "SEE")
               THEN zaxis.range = <<0, 14>> /\ zaxis.tickvals = arange(0, 15, 2)
               ELSE zaxis.range = <<0, 6>> /\ zaxis.tickvals = arange(0, 21, 2)
            /\ zaxis.tickvals[1] = 0
            /\ zaxis.ticktext[1] = ""
            /\ Len(zaxis.ticktext) = Len(zaxis.tickvals)

(* C6 amended: the range follows "SEE" in identifier 1 ([0,14], else [0,6]); *)
(* the ticks follow "WPI" in identifier 1 (0,2,...,20, else 0,2,...,14); the *)
(* label at 0 is empty, labels and values are as many.                       *)
C6_ZAxisRangeBySeeTicksByWpi ==
    (args.fn = "create_layout" /\ result.raised = "none") =>
        LET zaxis == result.value.scene.zaxis
        IN  /\ zaxis.range = IF Contains(args.surface_1_name, "SEE")
                             THEN <<0, 14>> ELSE <<0, 6>>
            /\ zaxis.tickvals = IF Contains(args.surface_1_name, "WPI")
                                THEN arange(0, 21, 2) ELSE arange(0, 15, 2)
            /\ zaxis.tickvals[1] = 0
            /\ zaxis.ticktext[1] = ""
            /\ Len(zaxis.ticktext) = Len(zaxis.tickvals)

(* A wave-period SEE surface: range [0,14] with ticks up to 20. *)
C6_Witness ==
    /\ args.fn = "create_layout"
    /\ result.raised = "none"
    /\ args.surface_1_name = "WPI_SEE_A"
    /\ args.surface_2_name = "CS_EV_A"
    /\ result.value.scene.zaxis.range = <<0, 14>>
    /\ Len(result.value.scene.zaxis.tickvals) = 11

(* C7: the Y axis follows "WPI" in identifier 1 alone: [15,6] with ticks     *)
(* 15,12,9,6 labelled "15","12","9","6", else [0,1.5] with ticks             *)
(* 0,0.5,1,1.5, whatever identifier 2 and the grids are.                     *)
C7_YAxisByWpiOfSurface1 ==
    (args.fn = "create_layout" /\ result.raised = "none") =>
        LET yaxis == result.value.scene.yaxis
        IN  IF Contains(args.surface_1_name, "WPI")
            THEN /\ yaxis.range = <<Rat(15, 1), Rat(6, 1)>>
                 /\ yaxis.tickvals = <<Rat(15, 1), Rat(12, 1), Rat(9, 1), Rat(6, 1)>>
                 /\ yaxis.ticktext = <<"15", "12", "9", "6">>
            ELSE /\ yaxis.range = <<Rat(0, 1), Rat(3, 2)>>
                 /\ yaxis.tickvals = <<Rat(0, 1), Rat(1, 2), Rat(1, 1), Rat(3, 2)>>

(* Identifier 1 without "WPI", identifier 2 with it: the Y axis is [0,1.5]. *)
C7_Witness ==
    /\ args.fn = "create_layout"
    /\ result.raised = "none"
    /\ ~Contains(args.surface_1_name, "WPI")
    /\ Contains(args.surface_2_name, "WPI")
    /\ args.surface_1_2d_list # args.surface_2_2d_list
    /\ result.value.scene.yaxis.range = <<Rat(0, 1), Rat(3, 2)>>

(* C8: add_trace called with n_clicks None returns the store it received:   *)
(* the store is unchanged, whatever the inputs and the displayed figure.    *)
C8_NoTriggerNoChange ==
    (call.handler = "add_trace" /\ ~call.n_clicks.some) =>
        /\ call.raised = "none"
        /\ figure_store = call.figures_dict

(* The call without trigger ran with a figure on display and an empty Z field. *)
C8_Witness ==
    /\ call.handler = "add_trace"
    /\ ~call.n_clicks.some
    /\ call.figure_dict # None
    /\ call.z = None
    /\ figure_store = call.figures_dict

(* A selector without "+" separator, or naming neither "SEE" nor "EV". *)
Malformed(title) ==
    \/ ~Contains(title, "+")
    \/ (~Contains(title, "SEE") /\ ~Contains(title, "EV"))

(* C9: select_graph on a malformed selector raises the value error and      *)
(* nothing else, and leaves the store and the displayed figure as they were.*)
C9_MalformedRaisesValueError ==
    (call.handler = "select_graph" /\ Malformed(call.title)) =>
        /\ call.raised = "ValueError"
        /\ figure_store = call.figures_dict
        /\ plot_figure = call.figure_dict

(* C10: with a palette name outside the table the builder raises the        *)
(* palette-not-found error (ValueError) and returns nothing, for every      *)
(* n_colors; with a name of the table it never raises it.                   *)
C10_PaletteNotFound ==
    (args.fn = "make_colorscale_distinct" /\ result.raised # "not called") =>
        /\ (args.pal \notin DOMAIN COLOR_SCALES =>
                result.raised = "ValueError" /\ "value" \notin DOMAIN result)
        /\ (args.pal \in DOMAIN COLOR_SCALES => result.raised # "ValueError")

(* The docstring's default name, which the table lacks, was asked for. *)
C10_Witness ==
    /\ args.fn = "make_colorscale_distinct"
    /\ args.pal = "RCB_Set3_12"
    /\ args.n_colors = 3
    /\ result.raised = "ValueError"

(* A grid with no rows, or whose last row has no values. *)
IsEmptyGrid(grid) == Len(grid) = 0 \/ Len(grid[Len(grid)]) = 0

(* C11: create_layout given an empty grid for either surface raises an      *)
(* error and returns no layout, so no annotation z-position comes from a    *)
(* missing corner value; with two non-empty grids it returns a layout whose *)
(* two pointers sit at the grids' last values.                              *)
C11_EmptyGridFailsFast ==
    (args.fn = "create_layout" /\ result.raised # "not called") =>
        IF IsEmptyGrid(args.surface_1_2d_list) \/ IsEmptyGrid(args.surface_2_2d_list)
        THEN /\ result.raised \notin {"none", "not called"}
             /\ "value" \notin DOMAIN result
        ELSE /\ result.raised = "none"
             /\ result.value.scene.annotations[4].z
                    = args.surface_1_2d_list[Len(args.surface_1_2d_list)][
                          Len(args.surface_1_2d_list[Len(args.surface_1_2d_list)])]
             /\ result.value.scene.annotations[5].z
                    = args.surface_2_2d_list[Len(args.surface_2_2d_list)][
                          Len(args.surface_2_2d_list[Len(args.surface_2_2d_list)])]

(* Grid 1 has values, grid 2 ends in a row without values: the call raised. *)
C11_Witness ==
    /\ args.fn = "create_layout"
    /\ ~IsEmptyGrid(args.surface_1_2d_list)
    /\ args.surface_2_2d_list = <<<<1>>, <<>>>>
    /\ result.raised = "IndexError"

(* Ticks start at 0 and are step apart. *)
IsEvenlySpacedFromZero(ticks, step) ==
    /\ Len(ticks) >= 1
    /\ ticks[1] = 0
    /\ \A j \in 1..(Len(ticks) - 1) : ticks[j + 1] - ticks[j] = step

(* C12 as stated: for every n_colors >= 1 the colorbar ticks are 2 apart    *)
(* when n_colors > 6 and 1 apart otherwise, start at 0 and end at n_colors; *)
(* the color range is [0, n_colors].                                        *)
C12_TicksEndAtNColors ==
    (args.fn = "create_surface" /\ result.raised = "none" /\ args.n_colors >= 1) =>
        LET surface == result.value
            ticks == surface.colorbar.tickvals
        IN  /\ IsEvenlySpacedFromZero(ticks, IF args.n_colors > 6 THEN 2 ELSE 1)
            /\ ticks[Len(ticks)] = args.n_colors
            /\ surface.cmin = 0
            /\ surface.cmax = args.n_colors

(* C12 amended: the same, with the last tick at the largest multiple of the *)
(* spacing that does not exceed n_colors: n_colors itself when n_colors <= 6*)
(* or even, n_colors - 1 when n_colors is odd and above 6; the tick labels  *)
(* are the tick positions.                                                  *)
C12_TicksEndAtLastMultiple ==
    (args.fn = "create_surface" /\ result.raised = "none" /\ args.n_colors >= 1) =>
        LET surface == result.value
            ticks == surface.colorbar.tickvals
            step == IF args.n_colors > 6 THEN 2 ELSE 1
        IN  /\ IsEvenlySpacedFromZero(ticks, step)
            /\ ticks[Len(ticks)] = args.n_colors - (args.n_colors % step)
            /\ surface.colorbar.ticktext = ticks
            /\ surface.cmin = 0
            /\ surface.cmax = args.n_colors

(* 9 color groups: ticks 0, 2, 4, 6, 8 under a color range of [0, 9]. *)
C12_Witness ==
    /\ args.fn = "create_surface"
    /\ args.n_colors = 9
    /\ result.raised = "none"
    /\ result.value.colorbar.tickvals = <<0, 2, 4, 6, 8>>
    /\ result.value.cmax = 9

(* The step is a run of select_graph on a pair the dropdown offers: the     *)
(* initial call, or the call a selection causes.                            *)
IsSelectPairStep ==
    /\ call'.handler = "select_graph"
    /\ call'.title \in dropdown_values
    /\ \/ pending = {} /\ pending' = {"update_graph"}
       \/ "select_graph" \in pending /\ "select_graph" \notin pending'

(* Range, tick values and tick labels of the three axes are the same. *)
SameAxes(layout_a, layout_b) ==
    \A axis \in {"xaxis", "yaxis", "zaxis"} :
        /\ layout_a.scene[axis].range = layout_b.scene[axis].range
        /\ layout_a.scene[axis].tickvals = layout_b.scene[axis].tickvals
        /\ layout_a.scene[axis].ticktext = layout_b.scene[axis].ticktext

(* C13: every run of select_graph on a pair built at startup returns, and   *)
(* the artifact it stores has the axis ranges and ticks of the artifact     *)
(* built at startup; when the run before it was a run on the same pair, it  *)
(* leaves the store as that run left it.                                    *)
C13_SelectRederivesSameLayout ==
    [][IsSelectPairStep =>
          /\ call'.raised = "none"
          /\ SameAxes(figure_store'[call'.title].layout, figures[call'.title].layout)
          /\ \A k \in dropdown_values \ {call'.title} : figure_store'[k] = figure_store[k]
          /\ (call.handler = "select_graph" /\ call.raised = "none"
                  /\ call.title = call'.title) => figure_store' = figure_store]_vars

(* A pair other than the initial one, already annotated, was selected again *)
(* and the store stayed as it was.                                          *)
C13_Witness ==
    /\ call.handler = "select_graph"
    /\ call.raised = "none"
    /\ call.title # initial_selection
    /\ call.title = graph_selector
    /\ Len(figure_store[call.title].data) = 4
    /\ call.figures_dict[call.title].layout.uirevision = call.title
    /\ figure_store = call.figures_dict
    /\ SameAxes(figure_store[call.title].layout, figures[call.title].layout)

(* C14 as stated: exactly one surface of the pair has full opacity, a       *)
(* visible colorbar and the lower ambient light of the two.                 *)
C14_OneSurfaceHasAllThreeTraits ==
    (args.fn = "pair_traces" /\ result.raised = "none") =>
        \E i \in {1, 2} :
            /\ result.value[i].opacity = Rat(1, 1)
            /\ result.value[i].showscale = TRUE
            /\ RatLess(result.value[i].lighting.ambient, result.value[3 - i].lighting.ambient)
            /\ ~(/\ result.value[3 - i].opacity = Rat(1, 1)
                 /\ result.value[3 - i].showscale = TRUE)

(* C14 amended: exactly one surface of the pair shows its colorbar; that    *)
(* surface has the lower ambient light (0.5 against 0.9) and the reduced    *)
(* opacity 0.8, while the other surface has the full opacity 1.0 and no     *)
(* colorbar.                                                                *)
C14_ColorbarSurfaceIsTranslucent ==
    (args.fn = "pair_traces" /\ result.raised = "none") =>
        \E i \in {1, 2} :
            /\ result.value[i].showscale = TRUE
            /\ result.value[3 - i].showscale = FALSE
            /\ RatLess(result.value[i].lighting.ambient, result.value[3 - i].lighting.ambient)
            /\ result.value[i].lighting.ambient = Rat(1, 2)
            /\ result.value[3 - i].lighting.ambient = Rat(9, 10)
            /\ result.value[i].opacity = Rat(4, 5)
            /\ result.value[3 - i].opacity = Rat(1, 1)

(* Grid 2 reaches higher: surface 2 shows the colorbar at opacity 0.8 and   *)
(* surface 1 has the full opacity.                                          *)
C14_Witness ==
    /\ args.fn = "pair_traces"
    /\ result.raised = "none"
    /\ SecondIsHigher(args.files_1, args.files_2)
    /\ result.value[2].showscale = TRUE
    /\ result.value[2].opacity = Rat(4, 5)
    /\ result.value[1].opacity = Rat(1, 1)

(* C15: once an event is handled to its end, the redraw included, the       *)
(* displayed figure is the stored artifact of the selected key; so every    *)
(* triggered add_trace starts from a figure equal to that artifact, and     *)
(* what it stores under the selected key begins with all the traces the     *)
(* artifact had.                                                            *)
C15_DisplayedIsStoredArtifact ==
    /\ pending = {} =>
           /\ graph_selector \in DOMAIN figure_store
           /\ Figure(plot_figure) = figure_store[graph_selector]
    /\ (call.handler = "add_trace" /\ call.n_clicks.some) =>
           /\ Figure(call.figure_dict) = call.figures_dict[call.selected_graph]
           /\ LET before == call.figures_dict[call.selected_graph].data
                  after == figure_store[call.selected_graph].data
              IN  /\ Len(after) >= Len(before)
                  /\ SubSeq(after, 1, Len(before)) = before
    /\ (call.handler = "select_graph" /\ call.raised = "none") =>
           Figure(plot_figure) = figure_store[call.title]

(* After two annotations of a pair other than the initial one, redrawn, the *)
(* plot window shows the stored artifact with its six traces.               *)
C15_Witness ==
    /\ pending = {}
    /\ call.handler = "add_trace"
    /\ call.n_clicks = Some(2)
    /\ call.raised = "none"
    /\ graph_selector # initial_selection
    /\ Len(Figure(call.figure_dict).data) = 4
    /\ Len(Figure(plot_figure).data) = 6
    /\ Figure(plot_figure) = figure_store[graph_selector]

====
